---- MODULE Spec2Model ----
(***************************************************************************)
(* Model of crates/test_utils/src/connector_auth.rs: the two loaders of    *)
(* the connector authentication file (ConnectorAuthentication::new, the    *)
(* statically shaped record, and ConnectorAuthenticationMap::new, the      *)
(* shape classifier) and the conversions of the four wrapper records into  *)
(* ConnectorAuthType.                                                      *)
(***************************************************************************)
EXTENDS Naturals, Sequences, FiniteSets, TLC

\* ------------------------------------------------------------------ bounds

\* Number of distinct non-empty credential strings the inputs draw from.
NumStrings == 2

\* Number of loader invocations followed in one behaviour.
MaxCalls == 2

\* Number of connector entries in the authentication file.
MaxEntries == 2

\* ------------------------------------------------------------ toml::Value

StringPool == <<"k1", "k2", "k3", "k4", "k5", "k6">>

\* Credential strings: the empty string and NumStrings non-empty ones.
Strings == {""} \cup {StringPool[i] : i \in 1..NumStrings}

\* A toml::Value: its variant (kind), its content when it is a String (or
\* its TOML rendering when it is a scalar of another type), its fields when
\* it is a Table and its elements when it is an Array.
StringValue(s) == [kind |-> "String", text |-> s, table |-> <<>>, items |-> <<>>]

IntegerValue == [kind |-> "Integer", text |-> "42", table |-> <<>>, items |-> <<>>]

BooleanValue == [kind |-> "Boolean", text |-> "true", table |-> <<>>, items |-> <<>>]

ArrayValue(elems) == [kind |-> "Array", text |-> "", table |-> <<>>, items |-> elems]

TableValue(fields) == [kind |-> "Table", text |-> "", table |-> fields, items |-> <<>>]

\* Option<T>: None is the empty tuple, Some(x) the one-element tuple.
None == <<>>

Some(x) == <<x>>

IsSome(o) == Len(o) = 1

IsNone(o) == Len(o) = 0

\* The four field names the classifier looks up, and names it never looks up
\* (two case variants and an unrelated name).
RecognizedFields == {"api_key", "key1", "api_secret", "key2"}

UnrecognizedFields == {"API_KEY", "Key1", "merchant_id"}

\* ----------------------------------------------------- ConnectorAuthType

NoKey == [variant |-> "NoKey"]

HeaderKeyAuth(api_key) == [variant |-> "HeaderKey", api_key |-> api_key]

BodyKeyAuth(api_key, key1) ==
    [variant |-> "BodyKey", api_key |-> api_key, key1 |-> key1]

SignatureKeyAuth(api_key, key1, api_secret) ==
    [variant |-> "SignatureKey", api_key |-> api_key, key1 |-> key1,
     api_secret |-> api_secret]

MultiAuthKeyAuth(api_key, key1, api_secret, key2) ==
    [variant |-> "MultiAuthKey", api_key |-> api_key, key1 |-> key1,
     api_secret |-> api_secret, key2 |-> key2]

\* ------------------------------------------------------ the classifier

\* A lookup that also accepts the upper-case spelling of the name.
GetIgnoringCase(table, name) ==
    IF name \in DOMAIN table THEN Some(table[name])
    ELSE IF name = "api_key" /\ "API_KEY" \in DOMAIN table
         THEN Some(table["API_KEY"])
    ELSE IF name = "key1" /\ "Key1" \in DOMAIN table
         THEN Some(table["Key1"])
    ELSE None

\* table.get(name): the value stored under exactly this name, if any.
Get(table, name) ==
    IF name \in DOMAIN table THEN Some(table[name]) ELSE None

\* Value::as_str: the content of a String value, None for every other kind.
as_str(value) ==
    IF value.kind = "String" THEN Some(value.text) ELSE None

\* Option<&str>::unwrap_or_default: the empty string for None.
unwrap_or_default(o) ==
    IF IsSome(o) THEN o[1] ELSE ""

\* A coercion that renders a value of another type instead of dropping it.
RenderAnyValue(value) == value.text

\* value.as_str().unwrap_or_default().to_string()
AsString(value) == unwrap_or_default(as_str(value))

\* A key-triple arm that stores key1 and api_secret under each other's name.
SignatureKeyArmSwapped(api_key, key1, api_secret) ==
    SignatureKeyAuth(AsString(api_key), AsString(api_secret), AsString(key1))

HeaderKeyArm(api_key) == HeaderKeyAuth(AsString(api_key))

\* A key-pair arm that stores each value under the other's name.
BodyKeyArmSwapped(api_key, key1) == BodyKeyAuth(AsString(key1), AsString(api_key))

BodyKeyArm(api_key, key1) == BodyKeyAuth(AsString(api_key), AsString(key1))

SignatureKeyArm(api_key, key1, api_secret) ==
    SignatureKeyAuth(AsString(api_key), AsString(key1), AsString(api_secret))

MultiAuthKeyArm(api_key, key1, api_secret, key2) ==
    MultiAuthKeyAuth(AsString(api_key), AsString(key1), AsString(api_secret),
                     AsString(key2))

\* A match whose single-key arm does not look at key2.
MatchFieldsIgnoringKey2(table) ==
    LET api_key == Get(table, "api_key")
        key1 == Get(table, "key1")
        api_secret == Get(table, "api_secret")
        key2 == Get(table, "key2")
    IN  CASE IsSome(api_key) /\ IsNone(key1) /\ IsNone(api_secret) ->
                HeaderKeyArm(api_key[1])
          [] IsSome(api_key) /\ IsSome(key1) /\ IsNone(api_secret) /\ IsNone(key2) ->
                BodyKeyArm(api_key[1], key1[1])
          [] IsSome(api_key) /\ IsSome(key1) /\ IsSome(api_secret) /\ IsNone(key2) ->
                SignatureKeyArm(api_key[1], key1[1], api_secret[1])
          [] IsSome(api_key) /\ IsSome(key1) /\ IsSome(api_secret) /\ IsSome(key2) ->
                MultiAuthKeyArm(api_key[1], key1[1], api_secret[1], key2[1])
          [] OTHER -> NoKey

\* The inner match on (get api_key, get key1, get api_secret, get key2).
MatchFields(table) ==
    LET api_key == Get(table, "api_key")
        key1 == Get(table, "key1")
        api_secret == Get(table, "api_secret")
        key2 == Get(table, "key2")
    IN  CASE IsSome(api_key) /\ IsNone(key1) /\ IsNone(api_secret) /\ IsNone(key2) ->
                HeaderKeyArm(api_key[1])
          [] IsSome(api_key) /\ IsSome(key1) /\ IsNone(api_secret) /\ IsNone(key2) ->
                BodyKeyArm(api_key[1], key1[1])
          [] IsSome(api_key) /\ IsSome(key1) /\ IsSome(api_secret) /\ IsNone(key2) ->
                SignatureKeyArm(api_key[1], key1[1], api_secret[1])
          [] IsSome(api_key) /\ IsSome(key1) /\ IsSome(api_secret) /\ IsSome(key2) ->
                MultiAuthKeyArm(api_key[1], key1[1], api_secret[1], key2[1])
          [] OTHER -> NoKey

\* The outer match on the entry: a table is classified, anything else is NoKey.
ClassifyEntry(config) ==
    IF config.kind = "Table" THEN MatchFields(config.table) ELSE NoKey

\* -------------------------------------------------------------- state

VARIABLES
    config,      \* classifier: the entry (a toml::Value) handed to the closure
    auth_type,   \* classifier: the ConnectorAuthType the closure returned
    key,         \* wrappers: the wrapper record under consideration
    converted,   \* wrappers: the result of ConnectorAuthType::from(key)
    rendered,    \* wrappers: the text of format!("{:?}", key)
    cloned,      \* wrappers: the result of key.clone()
    observed,    \* wrappers: the plain credential strings an operation let out
    env,         \* loaders: the result of env::var("CONNECTOR_AUTH_FILE_PATH")
    file,        \* loaders: what is stored at the configured path
    calls        \* loaders: the outcome of each loader invocation so far

vars == <<config, auth_type, key, converted, rendered, cloned, observed,
          env, file, calls>>

classifierVars == <<config, auth_type>>

wrapperVars == <<key, converted, rendered, cloned, observed>>

loaderVars == <<env, file, calls>>

\* Values of the variables a specification does not use.
NotRun == [variant |-> "NotRun"]

ClassifierIdle == config = None /\ auth_type = NotRun

WrapperIdle ==
    /\ key = None
    /\ converted = NotRun
    /\ rendered = None
    /\ cloned = None
    /\ observed = {}

LoaderIdle == env = None /\ file = None /\ calls = <<>>

\* ------------------------------------- the classifier on one entry

\* Values a field of a table can hold.
FieldValues ==
    {StringValue(s) : s \in Strings}
        \cup {IntegerValue, BooleanValue, ArrayValue(<<>>), TableValue(<<>>)}

RecognizedTables == UNION {[D -> FieldValues] : D \in SUBSET RecognizedFields}

UnrecognizedTables ==
    UNION {[D -> {StringValue(StringPool[1])}] : D \in SUBSET UnrecognizedFields}

Tables == {r @@ u : r \in RecognizedTables, u \in UnrecognizedTables}

NonTableValues ==
    {StringValue(s) : s \in Strings}
        \cup {IntegerValue, BooleanValue, ArrayValue(<<>>),
              ArrayValue(<<StringValue(StringPool[1])>>)}

\* Every value an entry of the file can have.
EntryValues == {TableValue(t) : t \in Tables} \cup NonTableValues

ClassifyInit ==
    /\ config \in EntryValues
    /\ auth_type = NotRun
    /\ WrapperIdle
    /\ LoaderIdle

\* One application of the closure of auth_config.into_iter().map(..).
Classify ==
    /\ auth_type = NotRun
    /\ auth_type' = ClassifyEntry(config)
    /\ UNCHANGED <<config, wrapperVars, loaderVars>>

ClassifyNext == Classify

SpecClassify == ClassifyInit /\ [][ClassifyNext]_vars

\* ----------------------------------------------- claims on the classifier

Classified == auth_type # NotRun

\* The recognized names present in a table.
Presence(t) == DOMAIN t \cap RecognizedFields

RecognizedPatterns ==
    {{"api_key"}, {"api_key", "key1"}, {"api_key", "key1", "api_secret"},
     {"api_key", "key1", "api_secret", "key2"}}

AllRecognizedAreStrings(t) == \A f \in Presence(t) : t[f].kind = "String"

\* The variant the presence table of the specification gives a pattern.
PatternVariant(p) ==
    CASE p = {"api_key"} -> "HeaderKey"
      [] p = {"api_key", "key1"} -> "BodyKey"
      [] p = {"api_key", "key1", "api_secret"} -> "SignatureKey"
      [] p = {"api_key", "key1", "api_secret", "key2"} -> "MultiAuthKey"
      [] OTHER -> "NoKey"

\* C1: a table whose recognized fields are all strings and whose presence
\* pattern is {api_key}, {api_key, key1}, {api_key, key1, api_secret} or all
\* four names is classified HeaderKey, BodyKey, SignatureKey, MultiAuthKey
\* respectively, and each field of the result is the string stored under the
\* same name in the table.
C1_RecognizedShapes ==
    (Classified /\ config.kind = "Table"
        /\ Presence(config.table) \in RecognizedPatterns
        /\ AllRecognizedAreStrings(config.table))
    => /\ auth_type.variant = PatternVariant(Presence(config.table))
       /\ DOMAIN auth_type = {"variant"} \cup Presence(config.table)
       /\ \A f \in Presence(config.table) : auth_type[f] = config.table[f].text

C1_Witness ==
    /\ Classified
    /\ config.kind = "Table"
    /\ Presence(config.table) = {"api_key", "key1", "api_secret"}
    /\ AllRecognizedAreStrings(config.table)
    /\ config.table["key1"].text # config.table["api_secret"].text
    /\ auth_type.variant = "SignatureKey"

\* C2: an entry that is not a table, and a table whose presence pattern is
\* none of the four recognized ones, is classified NoKey; every entry gets
\* exactly one of the five variants, NoKey exactly in those cases, and the
\* closure yields a value for every entry.
C2_EverythingElseIsNoKey ==
    /\ ~Classified => ENABLED Classify
    /\ Classified
       => /\ auth_type.variant \in
                 {"NoKey", "HeaderKey", "BodyKey", "SignatureKey", "MultiAuthKey"}
          /\ (auth_type = NoKey) <=>
                 (config.kind # "Table"
                     \/ Presence(config.table) \notin RecognizedPatterns)

C2_Witness ==
    /\ Classified
    /\ config.kind = "Table"
    /\ Presence(config.table) = {"api_key", "key1", "key2"}
    /\ auth_type = NoKey

\* C3: in a table with a recognized presence pattern, a recognized field that
\* holds a non-string value becomes the empty string, a string field keeps
\* its value, and the variant is the one the presence pattern selects.
C3_NonStringBecomesEmpty ==
    (Classified /\ config.kind = "Table"
        /\ Presence(config.table) \in RecognizedPatterns
        /\ ~AllRecognizedAreStrings(config.table))
    => /\ auth_type.variant = PatternVariant(Presence(config.table))
       /\ DOMAIN auth_type = {"variant"} \cup Presence(config.table)
       /\ \A f \in Presence(config.table) :
              auth_type[f] = IF config.table[f].kind = "String"
                             THEN config.table[f].text ELSE ""

C3_Witness ==
    /\ Classified
    /\ config.kind = "Table"
    /\ Presence(config.table) = {"api_key", "key1"}
    /\ config.table["api_key"].kind = "Integer"
    /\ config.table["key1"] = StringValue(StringPool[2])
    /\ auth_type = BodyKeyAuth("", StringPool[2])

\* The table without the fields the classifier does not recognize.
OnlyRecognized(t) == [f \in Presence(t) |-> t[f]]

\* C9: the classification of a table is the classification of the same table
\* with its unrecognized fields (other names, case variants) removed, and the
\* result has no field other than the recognized ones present in the table.
C9_UnrecognizedFieldsIgnored ==
    (Classified /\ config.kind = "Table")
    => /\ auth_type = ClassifyEntry(TableValue(OnlyRecognized(config.table)))
       /\ DOMAIN auth_type \subseteq {"variant"} \cup Presence(config.table)

C9_Witness ==
    /\ Classified
    /\ config.kind = "Table"
    /\ DOMAIN config.table = {"API_KEY", "key1", "merchant_id"}
    /\ auth_type = NoKey

\* ------------------------------------------ wrapper records and From

\* masking::Secret<String>: a holder of one plain string.
Secret(s) == [inner_secret |-> s]

\* PeekInterface::peek: the plain string a Secret holds.
peek(secret) == secret.inner_secret

\* The Debug text of a Secret<String>: a placeholder naming the type only.
SecretDebug(secret) == "*** alloc::string::String ***"

HeaderKey(api_key) == [struct |-> "HeaderKey", api_key |-> api_key]

BodyKey(api_key, key1) ==
    [struct |-> "BodyKey", api_key |-> api_key, key1 |-> key1]

SignatureKey(api_key, key1, api_secret) ==
    [struct |-> "SignatureKey", api_key |-> api_key, key1 |-> key1,
     api_secret |-> api_secret]

MultiAuthKey(api_key, key1, api_secret, key2) ==
    [struct |-> "MultiAuthKey", api_key |-> api_key, key1 |-> key1,
     api_secret |-> api_secret, key2 |-> key2]

\* The fields of each wrapper struct, in declaration order.
StructFields(struct) ==
    CASE struct = "HeaderKey" -> <<"api_key">>
      [] struct = "BodyKey" -> <<"api_key", "key1">>
      [] struct = "SignatureKey" -> <<"api_key", "key1", "api_secret">>
      [] struct = "MultiAuthKey" -> <<"api_key", "key1", "api_secret", "key2">>

StructNames == {"HeaderKey", "BodyKey", "SignatureKey", "MultiAuthKey"}

FieldSet(struct) == {StructFields(struct)[i] : i \in 1..Len(StructFields(struct))}

\* A conversion of the key triple that reads api_secret for key1 and back.
FromSignatureKeySwapped(k) ==
    SignatureKeyAuth(peek(k.api_key), peek(k.api_secret), peek(k.key1))

FromHeaderKey(k) == HeaderKeyAuth(peek(k.api_key))

FromBodyKey(k) == BodyKeyAuth(peek(k.api_key), peek(k.key1))

FromSignatureKey(k) ==
    SignatureKeyAuth(peek(k.api_key), peek(k.key1), peek(k.api_secret))

FromMultiAuthKey(k) ==
    MultiAuthKeyAuth(peek(k.api_key), peek(k.key1), peek(k.api_secret),
                     peek(k.key2))

\* ConnectorAuthType::from(k): the impl selected by the type of k.
From(k) ==
    CASE k.struct = "HeaderKey" -> FromHeaderKey(k)
      [] k.struct = "BodyKey" -> FromBodyKey(k)
      [] k.struct = "SignatureKey" -> FromSignatureKey(k)
      [] k.struct = "MultiAuthKey" -> FromMultiAuthKey(k)

\* Formatter::debug_struct: the tokens "name: text" of the fields from
\* position i on, texts giving each field's own Debug text.
RECURSIVE DebugFields(_, _, _)
DebugFields(names, texts, i) ==
    IF i > Len(names) THEN <<>>
    ELSE <<names[i], ":", texts[names[i]]>> \o DebugFields(names, texts, i + 1)

\* A Debug implementation that prints the content of each field.
DebugFmtRevealing(k) ==
    <<k.struct, "{">>
        \o DebugFields(StructFields(k.struct),
                       [f \in FieldSet(k.struct) |-> peek(k[f])], 1)
        \o <<"}">>

\* #[derive(Debug)] on a wrapper struct: the struct's name and, for each
\* field in declaration order, its name and the field's own Debug text.
DebugFmt(k) ==
    <<k.struct, "{">>
        \o DebugFields(StructFields(k.struct),
                       [f \in FieldSet(k.struct) |-> SecretDebug(k[f])], 1)
        \o <<"}">>

\* #[derive(Clone)] on a wrapper struct.
Clone(k) == k

\* The wrappers of one struct, over all contents of their fields.
WrappersOf(struct) ==
    {[struct |-> struct] @@ f : f \in [FieldSet(struct) -> {Secret(s) : s \in Strings}]}

Wrappers == UNION {WrappersOf(struct) : struct \in StructNames}

\* The plain strings held by a wrapper.
SecretsOf(k) == {k[f].inner_secret : f \in FieldSet(k.struct)}

\* The plain strings of k that occur in a text.
Occurring(text, k) == {s \in SecretsOf(k) : \E i \in 1..Len(text) : text[i] = s}

WrapperInit ==
    /\ key \in Wrappers
    /\ converted = NotRun
    /\ rendered = None
    /\ cloned = None
    /\ observed = {}
    /\ ClassifierIdle
    /\ LoaderIdle

\* let auth: ConnectorAuthType = key.into(); the key is moved.
Convert ==
    /\ converted = NotRun
    /\ converted' = From(key)
    /\ observed' = observed \cup {converted'[f] : f \in DOMAIN converted' \ {"variant"}}
    /\ UNCHANGED <<key, rendered, cloned, classifierVars, loaderVars>>

\* format!("{:?}", key), before the key is moved.
Format ==
    /\ converted = NotRun
    /\ rendered = None
    /\ rendered' = Some(DebugFmt(key))
    /\ observed' = observed \cup Occurring(DebugFmt(key), key)
    /\ UNCHANGED <<key, converted, cloned, classifierVars, loaderVars>>

\* key.clone(), before the key is moved.
CloneKey ==
    /\ converted = NotRun
    /\ cloned = None
    /\ cloned' = Some(Clone(key))
    /\ UNCHANGED <<key, converted, rendered, observed, classifierVars, loaderVars>>

WrapperNext == Convert \/ Format \/ CloneKey

SpecWrappers == WrapperInit /\ [][WrapperNext]_vars

\* ------------------------------------------------- claims on the wrappers

\* C4: the conversion of a wrapper gives the variant named like the wrapper's
\* struct, with exactly the wrapper's fields, each holding the plain string of
\* the wrapper field of the same name.
C4_FromPreservesFields ==
    converted # NotRun
    => /\ converted.variant = key.struct
       /\ DOMAIN converted = {"variant"} \cup FieldSet(key.struct)
       /\ \A f \in FieldSet(key.struct) : converted[f] = key[f].inner_secret

C4_Witness ==
    /\ converted # NotRun
    /\ key.struct = "SignatureKey"
    /\ key.key1.inner_secret # key.api_secret.inner_secret
    /\ converted.variant = "SignatureKey"

DeclaredStruct(connector_name) ==
    CASE connector_name = "bitpay" -> "HeaderKey"
      [] connector_name = "aci" -> "BodyKey"
      [] connector_name = "checkout" -> "SignatureKey"
      [] connector_name = "forte" -> "MultiAuthKey"

KnownConnectors == {"bitpay", "aci", "checkout", "forte"}

\* The top-level keys a file may hold: the known connectors and a name that
\* is no field of ConnectorAuthentication.
ConnectorNames == KnownConnectors \cup {"custom"}

\* <Secret<String> as Deserialize>::deserialize: a String value gives a
\* Secret of that string, any other value is an error (None).
DeserializeSecret(value) ==
    IF value.kind = "String" THEN Some(Secret(value.text)) ELSE None

\* #[derive(Deserialize)] on a wrapper struct. A table gives the struct when
\* every declared field is present and deserializes; fields that are not
\* declared are ignored. An array is read by position (the derived visitor's
\* visit_seq): element i gives the i-th declared field, and elements beyond
\* the last field are not read. Any other value is an error (None).
DeserializeWrapper(struct, value) ==
    LET names == StructFields(struct)
        n == Len(names)
    IN  IF value.kind = "Table"
        THEN IF \A f \in FieldSet(struct) :
                    f \in DOMAIN value.table /\ IsSome(DeserializeSecret(value.table[f]))
             THEN Some([struct |-> struct]
                       @@ [f \in FieldSet(struct) |-> DeserializeSecret(value.table[f])[1]])
             ELSE None
        ELSE IF value.kind = "Array"
        THEN IF Len(value.items) >= n
                  /\ \A i \in 1..n : IsSome(DeserializeSecret(value.items[i]))
             THEN Some([struct |-> struct]
                       @@ [f \in FieldSet(struct) |->
                              DeserializeSecret(
                                  value.items[CHOOSE i \in 1..n : names[i] = f])[1]])
             ELSE None
        ELSE None

\* A deserialization that leaves a connector out when its entry does not fit.
DeserializeRecordLenient(contents) ==
    IF contents.toml # "Valid" THEN None
    ELSE Some([c \in KnownConnectors |->
                  IF c \in DOMAIN contents.doc
                  THEN DeserializeWrapper(DeclaredStruct(c), contents.doc[c])
                  ELSE None])

\* toml::from_str::<ConnectorAuthentication>: an error (None) when the text
\* is not TOML or when the entry of some field does not deserialize into the
\* field's wrapper; a field without an entry is None; keys of the file that
\* are no field of the struct are ignored.
DeserializeRecord(contents) ==
    IF contents.toml # "Valid" THEN None
    ELSE IF \E c \in KnownConnectors \cap DOMAIN contents.doc :
                IsNone(DeserializeWrapper(DeclaredStruct(c), contents.doc[c]))
    THEN None
    ELSE Some([c \in KnownConnectors |->
                  IF c \in DOMAIN contents.doc
                  THEN DeserializeWrapper(DeclaredStruct(c), contents.doc[c])
                  ELSE None])

\* toml::from_str::<HashMap<String, toml::Value>>: an error (None) when the
\* text is not TOML, else the top-level table.
DeserializeMap(contents) ==
    IF contents.toml # "Valid" THEN None ELSE Some(contents.doc)

\* The outcome of one loader invocation.
Panicked(loader, message, steps) ==
    [loader |-> loader, outcome |-> "panicked", message |-> message,
     steps |-> steps, value |-> None]

Returned(loader, steps, value) ==
    [loader |-> loader, outcome |-> "returned", message |-> "",
     steps |-> steps, value |-> Some(value)]

\* ConnectorAuthentication::new
ConnectorAuthenticationNew(e, f) ==
    LET loader == "ConnectorAuthentication" IN
    IF e.var # "Ok"
    THEN Panicked(loader, "Connector authentication file path not set",
                  <<"env::var">>)
    ELSE IF f.read # "Ok"
    THEN Panicked(loader, "connector authentication config file not found",
                  <<"env::var", "read_to_string">>)
    ELSE IF IsNone(DeserializeRecord(f.contents))
    THEN Panicked(loader, "Failed to read connector authentication config file",
                  <<"env::var", "read_to_string", "toml::from_str">>)
    ELSE Returned(loader, <<"env::var", "read_to_string", "toml::from_str">>,
                  DeserializeRecord(f.contents)[1])

\* HashMap::insert
Insert(map, name, value) ==
    [x \in DOMAIN map \cup {name} |-> IF x = name THEN value ELSE map[x]]

\* A collection that stops one pair early.
RECURSIVE CollectAllButLast(_)
CollectAllButLast(pairs) ==
    IF Len(pairs) <= 1 THEN <<>>
    ELSE Insert(CollectAllButLast(SubSeq(pairs, 1, Len(pairs) - 1)),
                pairs[Len(pairs) - 1][1], pairs[Len(pairs) - 1][2])

\* Iterator::collect into a HashMap: the pairs inserted in iteration order.
RECURSIVE Collect(_)
Collect(pairs) ==
    IF Len(pairs) = 0 THEN <<>>
    ELSE Insert(Collect(SubSeq(pairs, 1, Len(pairs) - 1)),
                pairs[Len(pairs)][1], pairs[Len(pairs)][2])

\* The closure of the map: (connector_name, config) to (connector_name, auth_type).
MapEntry(connector_name, entry) == <<connector_name, ClassifyEntry(entry)>>

\* The orders in which HashMap::into_iter may yield the keys of a table.
IterationOrders(auth_config) ==
    {order \in [1..Cardinality(DOMAIN auth_config) -> DOMAIN auth_config] :
        \A i, j \in DOMAIN order : order[i] = order[j] => i = j}

\* ConnectorAuthenticationMap::new, the HashMap yielding its entries in the given order.
ConnectorAuthenticationMapNew(e, f, order) ==
    LET loader == "ConnectorAuthenticationMap" IN
    IF e.var # "Ok"
    THEN Panicked(loader, "connector authentication file path not set",
                  <<"env::var">>)
    ELSE IF f.read # "Ok"
    THEN Panicked(loader, "Failed to read connector authentication file",
                  <<"env::var", "read_to_string">>)
    ELSE IF IsNone(DeserializeMap(f.contents))
    THEN Panicked(loader, "Failed to deserialize TOML file",
                  <<"env::var", "read_to_string", "toml::from_str">>)
    ELSE LET auth_config == DeserializeMap(f.contents)[1]
             auth_map == Collect([i \in DOMAIN order |->
                                     MapEntry(order[i], auth_config[order[i]])])
         IN  Returned(loader,
                      <<"env::var", "read_to_string", "toml::from_str", "collect">>,
                      auth_map)

\* ConnectorAuthenticationMap::inner
inner(self) == self

\* ------------------------------------------------ the loaders' environment

\* The table every field of which holds its own distinct string.
FullTable ==
    [f \in RecognizedFields |->
        StringValue(CASE f = "api_key" -> "k1" [] f = "key1" -> "k2"
                      [] f = "api_secret" -> "k3" [] f = "key2" -> "k4")]

Restrict(t, names) == [f \in names |-> t[f]]

\* The values an entry of the file takes in the loaders' runs: the four
\* recognized shapes, tables of other shapes, a table with a field of another
\* type, a table with an unrecognized field, and values that are not tables.
LoaderEntryValues ==
    {TableValue(Restrict(FullTable, p)) : p \in RecognizedPatterns}
        \cup {TableValue(Restrict(FullTable, {"key1"})),
              TableValue(<<>>),
              TableValue([api_key |-> StringValue("k1"), key1 |-> IntegerValue]),
              TableValue([api_key |-> StringValue("k1"), merchant_id |-> StringValue("k2")]),
              StringValue("k1"),
              IntegerValue,
              ArrayValue(<<StringValue("k1")>>),
              ArrayValue(<<StringValue("k1"), StringValue("k2")>>)}

Documents ==
    UNION {[D -> LoaderEntryValues] :
              D \in {D \in SUBSET ConnectorNames : Cardinality(D) <= MaxEntries}}

\* What env::var("CONNECTOR_AUTH_FILE_PATH") gives: the path, or an error.
EnvResults == {[var |-> "Ok"], [var |-> "NotPresent"], [var |-> "NotUnicode"]}

\* What read_to_string(path) gives: an error, or the contents, which are TOML
\* (the document they denote) or not.
FileResults ==
    {[read |-> "NotFound", contents |-> [toml |-> "Invalid", doc |-> <<>>]],
     [read |-> "PermissionDenied", contents |-> [toml |-> "Invalid", doc |-> <<>>]],
     [read |-> "Ok", contents |-> [toml |-> "Invalid", doc |-> <<>>]]}
        \cup {[read |-> "Ok", contents |-> [toml |-> "Valid", doc |-> d]] :
                 d \in Documents}

Init ==
    /\ env \in EnvResults
    /\ file \in FileResults
    /\ calls = <<>>
    /\ ClassifierIdle
    /\ WrapperIdle

CallConnectorAuthenticationNew ==
    /\ Len(calls) < MaxCalls
    /\ calls' = Append(calls, ConnectorAuthenticationNew(env, file))
    /\ UNCHANGED <<env, file, classifierVars, wrapperVars>>

CallConnectorAuthenticationMapNew ==
    /\ Len(calls) < MaxCalls
    /\ \E order \in IterationOrders(file.contents.doc) :
          calls' = Append(calls, ConnectorAuthenticationMapNew(env, file, order))
    /\ UNCHANGED <<env, file, classifierVars, wrapperVars>>

Next == CallConnectorAuthenticationNew \/ CallConnectorAuthenticationMapNew

Spec == Init /\ [][Next]_vars

\* -------------------------------------------------- claims on the loaders

\* The document the file denotes (empty when the file is unreadable or not TOML).
auth_file == file.contents.doc

CallsOf(loader) == {i \in DOMAIN calls : calls[i].loader = loader}

\* C5: two invocations of the same loader against the same path setting and
\* file content have equal outcomes: both abort with the same message, or both
\* return structurally equal values.
C5_LoaderIdempotent ==
    \A i, j \in DOMAIN calls :
        calls[i].loader = calls[j].loader => calls[i] = calls[j]

C5_Witness ==
    /\ Len(calls) = 2
    /\ calls[1].loader = "ConnectorAuthenticationMap"
    /\ calls[2].loader = "ConnectorAuthenticationMap"
    /\ calls[2].outcome = "returned"
    /\ Cardinality(DOMAIN inner(calls[2].value[1])) = 2

\* The fixed order of the steps of a load.
StepOrder == <<"env::var", "read_to_string", "toml::from_str", "collect">>

IsPrefix(s, t) == Len(s) <= Len(t) /\ \A i \in DOMAIN s : s[i] = t[i]

\* The precondition a step checks.
StepPrecondition(step) ==
    CASE step = "env::var" -> "missing setting"
      [] step = "read_to_string" -> "unreadable file"
      [] step = "toml::from_str" -> "malformed file"
      [] OTHER -> "none"

\* The precondition the wording of a panic message names, in the vocabulary
\* of the module itself: "path not set" is the setting, "file not found" and
\* "Failed to read ... file" are the read, "Failed to deserialize" the parse.
MessageNames(message) ==
    CASE message = "Connector authentication file path not set" -> "missing setting"
      [] message = "connector authentication file path not set" -> "missing setting"
      [] message = "connector authentication config file not found" -> "unreadable file"
      [] message = "Failed to read connector authentication file" -> "unreadable file"
      [] message = "Failed to read connector authentication config file" -> "unreadable file"
      [] message = "Failed to deserialize TOML file" -> "malformed file"
      [] OTHER -> "none"

\* The steps of every load are a prefix of the fixed order; a load that
\* aborts produces no value, stops at the first step whose precondition
\* fails, and with the path setting missing nothing is read.
StepsInOrderAbortAtFirstFailure ==
    \A i \in DOMAIN calls :
        LET c == calls[i]
            last == c.steps[Len(c.steps)]
        IN  /\ IsPrefix(c.steps, StepOrder)
            /\ c.outcome = "panicked" =>
                  /\ c.value = None
                  /\ last = IF env.var # "Ok" THEN "env::var"
                            ELSE IF file.read # "Ok" THEN "read_to_string"
                            ELSE "toml::from_str"
            /\ c.outcome = "returned" =>
                  /\ env.var = "Ok" /\ file.read = "Ok"
                  /\ file.contents.toml = "Valid"
                  /\ c.value # None
            /\ env.var # "Ok" => c.outcome = "panicked" /\ c.steps = <<"env::var">>

\* The message of a load that aborts names the precondition of the step at
\* which it aborted.
MessageNamesFailedStep ==
    \A i \in DOMAIN calls :
        calls[i].outcome = "panicked" =>
            MessageNames(calls[i].message)
                = StepPrecondition(calls[i].steps[Len(calls[i].steps)])

\* C6: both loaders resolve the path setting, read the file, parse it and
\* build the result in this order, abort at the first step that fails without
\* running a later step or producing a value, and the abort's message names
\* the precondition that failed (missing setting, unreadable file, malformed
\* file).
C6_AbortNamesFailedPrecondition ==
    StepsInOrderAbortAtFirstFailure /\ MessageNamesFailedStep

\* An entry as the claim describes a mismatch: not a table, or a table in
\* which a declared field is absent or is not a string.
NotAFittingTable(c) ==
    LET v == auth_file[c] IN
    \/ v.kind # "Table"
    \/ \E f \in FieldSet(DeclaredStruct(c)) :
          f \notin DOMAIN v.table \/ v.table[f].kind # "String"

\* An array that supplies a string for each declared field, by position.
IsFittingArray(c) ==
    LET v == auth_file[c]
        n == Len(StructFields(DeclaredStruct(c)))
    IN  /\ v.kind = "Array"
        /\ Len(v.items) >= n
        /\ \A i \in 1..n : v.items[i].kind = "String"

\* The string an entry supplies for the i-th declared field of its wrapper.
SuppliedString(c, i) ==
    LET v == auth_file[c] IN
    IF v.kind = "Table" THEN v.table[StructFields(DeclaredStruct(c))[i]].text
    ELSE v.items[i].text

StaticLoadsOfValidFile ==
    {i \in CallsOf("ConnectorAuthentication") :
        env.var = "Ok" /\ file.read = "Ok" /\ file.contents.toml = "Valid"}

\* C7 as stated: if the entry of some known connector is not a table, or lacks
\* a declared field, or holds a non-string in one, the load aborts and returns
\* no record; a known connector without an entry is None.
C7_AnyNonTableEntryAborts ==
    \A i \in StaticLoadsOfValidFile :
        /\ (\E c \in KnownConnectors \cap DOMAIN auth_file : NotAFittingTable(c))
              => calls[i].outcome = "panicked" /\ calls[i].value = None
        /\ calls[i].outcome = "returned" =>
              \A c \in KnownConnectors \ DOMAIN auth_file : calls[i].value[1][c] = None

\* C7 (amended): if the entry of some known connector is neither a table
\* holding a string under every declared field nor an array holding a string
\* at the position of every declared field, the load aborts and returns no
\* record, whatever the other entries are; when the load returns, every known
\* connector with an entry holds the wrapper built from the strings of its
\* entry (never None, never an emptied field) and every known connector
\* without an entry is None.
C7_MismatchAborts ==
    \A i \in StaticLoadsOfValidFile :
        /\ (\E c \in KnownConnectors \cap DOMAIN auth_file :
                NotAFittingTable(c) /\ ~IsFittingArray(c))
              => calls[i].outcome = "panicked" /\ calls[i].value = None
        /\ calls[i].outcome = "returned" =>
              /\ \A c \in KnownConnectors \ DOMAIN auth_file :
                    calls[i].value[1][c] = None
              /\ \A c \in KnownConnectors \cap DOMAIN auth_file :
                    LET names == StructFields(DeclaredStruct(c))
                        field == calls[i].value[1][c]
                    IN  /\ IsSome(field)
                        /\ field[1].struct = DeclaredStruct(c)
                        /\ \A n \in DOMAIN names :
                              field[1][names[n]] = Secret(SuppliedString(c, n))

C7_Witness ==
    /\ StaticLoadsOfValidFile # {}
    /\ \A i \in StaticLoadsOfValidFile : calls[i].outcome = "panicked"
    /\ DOMAIN auth_file = {"bitpay", "aci"}
    /\ ~NotAFittingTable("bitpay")
    /\ auth_file["aci"].kind = "Table"
    /\ DOMAIN auth_file["aci"].table = {"api_key", "key1"}
    /\ auth_file["aci"].table["key1"].kind = "Integer"

\* A known connector whose entry is a table holding exactly the fields of its
\* declared wrapper, all of them strings.
ExactlyDeclaredShape(c) ==
    /\ c \in KnownConnectors \cap DOMAIN auth_file
    /\ auth_file[c].kind = "Table"
    /\ DOMAIN auth_file[c].table = FieldSet(DeclaredStruct(c))
    /\ \A f \in DOMAIN auth_file[c].table : auth_file[c].table[f].kind = "String"

\* C10: when both loaders return on the same source, then for every known
\* connector whose entry has exactly its declared shape, converting the
\* record's wrapper gives the value the map holds under the connector's name.
C10_LoadersAgreeOnDeclaredShape ==
    \A i \in CallsOf("ConnectorAuthentication"),
       j \in CallsOf("ConnectorAuthenticationMap") :
        (calls[i].outcome = "returned" /\ calls[j].outcome = "returned")
        => \A c \in KnownConnectors :
              ExactlyDeclaredShape(c)
              => /\ IsSome(calls[i].value[1][c])
                 /\ c \in DOMAIN inner(calls[j].value[1])
                 /\ From(calls[i].value[1][c][1]) = inner(calls[j].value[1])[c]

C10_Witness ==
    /\ \E i \in CallsOf("ConnectorAuthentication") : calls[i].outcome = "returned"
    /\ \E j \in CallsOf("ConnectorAuthenticationMap") : calls[j].outcome = "returned"
    /\ ExactlyDeclaredShape("aci")
    /\ ExactlyDeclaredShape("forte")

====
